---- MODULE Spec2Model ----
(***************************************************************************)
(* The interceptor registry (InterceptorManager) and the request pipeline  *)
(* (FetchInstance.request / #dispatchRequest) of refactorjs/ofetch.        *)
(*                                                                         *)
(* A function value is a triple <<registry, id, role>>: every use() call   *)
(* creates fresh closures, so the id tells the functions of one            *)
(* registration from those of every other.  A configuration or response   *)
(* that flows through the pipeline carries the list of the functions that *)
(* produced it (its trace), so the order of application can be read off   *)
(* the value itself.                                                      *)
(*                                                                         *)
(* The config of a call is the merge of the call-site config with the      *)
(* defaults of the client; its headers are an object known by reference,  *)
(* so that two configs can hold the same object.  A string is the         *)
(* sequence of its characters.                                            *)
(***************************************************************************)
EXTENDS Integers, Sequences, FiniteSets, TLC

MaxUse == 2
MaxCalls == 2

Regs == {"request", "response"}

CallIds == 1..MaxCalls

UndefinedFn == <<"", 0, "undefined">>

DispatchFn == <<"", 0, "dispatchRequest">>

TypeErrorFn == <<"", 0, "TypeError">>

TransportErrorFn == <<"", 0, "transport">>

TimeoutErrorFn == <<"", 0, "timeout">>

Null == [id |-> 0]

NoOptions == [given |-> FALSE, synchronous |-> "undefined", runWhen |-> "undefined"]

SyncOptions == [given |-> TRUE, synchronous |-> "true", runWhen |-> "undefined"]

AsyncOptions == [given |-> TRUE, synchronous |-> "false", runWhen |-> "undefined"]

RunWhenOptions == [given |-> TRUE, synchronous |-> "undefined", runWhen |-> "flag"]

SyncRunWhenOptions == [given |-> TRUE, synchronous |-> "true", runWhen |-> "flag"]

Outcomes == {"return", "reject", "throw"}

Timeouts == {5}

Delays == {3, 7}

VARIABLES handlers, issued, cleared, calls, configDefaults, objects, cookies, params

vars == <<handlers, issued, cleared, calls, configDefaults, objects, cookies, params>>

----------------------------------------------------------------------------
(* JavaScript values *)

Truthy(b) == b = "true"

AndJS_last(a, b) == b

AndJS(a, b) == IF Truthy(a) THEN b ELSE a

Fulfilled(trace) == [st |-> "fulfilled", trace |-> trace, reason |-> UndefinedFn]

Rejected(fn) == [st |-> "rejected", trace |-> << >>, reason |-> fn]

NoValue == [st |-> "pending", trace |-> << >>, reason |-> UndefinedFn]

Range(seq) == {seq[k] : k \in DOMAIN seq}

\* an optional string: a string is the sequence of its characters
Undefined == [def |-> FALSE, val |-> << >>]

Str(chars) == [def |-> TRUE, val |-> chars]

UpperCase ==
    [ch \in {"g", "e", "t", "p", "o", "s", "u", "h", "d"} |->
        CASE ch = "g" -> "G" [] ch = "e" -> "E" [] ch = "t" -> "T" [] ch = "p" -> "P"
          [] ch = "o" -> "O" [] ch = "s" -> "S" [] ch = "u" -> "U" [] ch = "h" -> "H"
          [] ch = "d" -> "D"]

ToUpperCase(chars) ==
    [k \in DOMAIN chars |-> IF chars[k] \in DOMAIN UpperCase THEN UpperCase[chars[k]] ELSE chars[k]]

StartsWith(chars, prefix) ==
    Len(chars) >= Len(prefix) /\ SubSeq(chars, 1, Len(prefix)) = prefix

\* /^https?/.test(url): the optional s matches nothing when it is absent
HttpTest_https(url) == url.def /\ StartsWith(url.val, <<"h", "t", "t", "p", "s">>)

HttpTest(url) == url.def /\ StartsWith(url.val, <<"h", "t", "t", "p">>)

\* a header object is known by its reference
NoObject == <<"undefined", 0>>

DefaultsHeaders == <<"defaults", 0>>

ArgHeaders(c) == <<"arg", c>>

MergedHeaders(c) == <<"merged", c>>

HeaderObjects == {DefaultsHeaders} \cup {ArgHeaders(c) : c \in CallIds} \cup {MergedHeaders(c) : c \in CallIds}

----------------------------------------------------------------------------
(* InterceptorManager *)

NewEntry(reg, id, hasFulfilled, hasRejected, options) ==
    [id |-> id,
     fulfilled |-> IF hasFulfilled THEN <<reg, id, "fulfilled">> ELSE UndefinedFn,
     rejected |-> IF hasRejected THEN <<reg, id, "rejected">> ELSE UndefinedFn,
     synchronous |-> IF options.given THEN options.synchronous ELSE "false",
     runWhen |-> IF options.given THEN options.runWhen ELSE "undefined"]

\* handles are array indices, counted from 0
Slot(hs, h) == IF h + 1 \in 1..Len(hs) THEN hs[h + 1] ELSE Null

Pushed(hs, entry) == Append(hs, entry)

UseHandle(hs) == Len(hs) - 1

\* this.handlers[id] = null without the test of the slot: an index beyond the last
\* slot lengthens the array
Ejected_unguarded(hs, h) ==
    IF h + 1 \in 1..Len(hs) THEN [hs EXCEPT ![h + 1] = Null]
    ELSE IF h >= Len(hs) THEN hs \o [k \in 1..(h + 1 - Len(hs)) |-> Null]
    ELSE hs

Ejected_splice(hs, h) ==
    IF Slot(hs, h) # Null THEN SubSeq(hs, 1, h) \o SubSeq(hs, h + 2, Len(hs)) ELSE hs

Ejected(hs, h) ==
    IF Slot(hs, h) # Null THEN [hs EXCEPT ![h + 1] = Null] ELSE hs

Cleared_keep(hs) == hs

Cleared(hs) == << >>

ForEach(hs) == SelectSeq(hs, LAMBDA h : h # Null)

Use(reg, hasFulfilled, hasRejected, options) ==
    /\ LET entry == NewEntry(reg, Len(issued[reg]) + 1, hasFulfilled, hasRejected, options)
           hs == Pushed(handlers[reg], entry)
       IN  /\ handlers' = [handlers EXCEPT ![reg] = hs]
           /\ issued' = [issued EXCEPT ![reg] = Append(@, UseHandle(hs))]
    /\ UNCHANGED <<cleared, calls, configDefaults, objects, cookies, params>>

Eject(reg, h) ==
    /\ handlers' = [handlers EXCEPT ![reg] = Ejected(@, h)]
    /\ UNCHANGED <<issued, cleared, calls, configDefaults, objects, cookies, params>>

Clear(reg) ==
    /\ handlers' = [handlers EXCEPT ![reg] = Cleared(@)]
    /\ cleared' = [cleared EXCEPT ![reg] = Len(issued[reg])]
    /\ UNCHANGED <<issued, calls, configDefaults, objects, cookies, params>>

----------------------------------------------------------------------------
(* FetchInstance.request: the configuration of the call *)

Include == Str(<<"include">>)

\* the defaults of a client constructed without a config
NoDefaults ==
    [method |-> Undefined, baseURL |-> Undefined, credentials |-> Undefined,
     headers |-> NoObject]

\* request('/a') without a config
PlainRequest ==
    [flag |-> FALSE, timeout |-> 0, native |-> FALSE, raw |-> FALSE,
     method |-> Undefined, url |-> Str(<<"/", "a">>), baseURL |-> Undefined,
     credentials |-> Undefined, headers |-> NoObject]

\* defu on a key that holds a string: the call-site value unless it is undefined
DefuValue(mine, theirs) == IF mine.def THEN mine ELSE theirs

\* defu on a key that holds an object: the result starts as Object.assign({}, defaults),
\* so an object only the defaults hold is taken over by reference, as is one only the
\* call site holds; two objects are merged into a new one
DefuObject(c, mine, theirs) ==
    IF mine = NoObject THEN theirs
    ELSE IF theirs = NoObject THEN mine
    ELSE MergedHeaders(c)

Defu(c, request, defaults) ==
    [request EXCEPT !.method = DefuValue(@, defaults.method),
                    !.baseURL = DefuValue(@, defaults.baseURL),
                    !.credentials = DefuValue(@, defaults.credentials),
                    !.headers = DefuObject(c, @, defaults.headers)]

\* the header object defu creates for the call, filled from both sides
MergedObjects(objs, c, request, defaults) ==
    IF Defu(c, request, defaults).headers = MergedHeaders(c)
    THEN [objs EXCEPT ![MergedHeaders(c)] =
              (IF request.headers = NoObject THEN {} ELSE objs[request.headers])
              \cup (IF defaults.headers = NoObject THEN {} ELSE objs[defaults.headers])]
    ELSE objs

UpperCased(config) ==
    [config EXCEPT !.method = IF @.def THEN Str(ToUpperCase(@.val)) ELSE @]

WithoutBaseURL(config) ==
    IF HttpTest(config.url) THEN [config EXCEPT !.baseURL = Undefined] ELSE config

ResolvedConfig(c, request, defaults) == WithoutBaseURL(UpperCased(Defu(c, request, defaults)))

----------------------------------------------------------------------------
(* query parameters: an object is the set of its entries <<key, value>>, a key is
   <<name, suffix>> *)

Keys == {<<"a", "">>, <<"b", "">>, <<"f", "">>}

Number1 == [kind |-> "number", items |-> <<1>>]

NullValue == [kind |-> "null", items |-> << >>]

UndefinedValue == [kind |-> "undefined", items |-> << >>]

EmptyString == [kind |-> "string", items |-> << >>]

Array(items) == [kind |-> "array", items |-> items]

Absent == [kind |-> "absent", items |-> << >>]

ParamValues ==
    {Number1, NullValue, UndefinedValue, EmptyString,
     Array(<< >>), Array(<<2, 2, 3>>), Array(<<2, 3>>), Array(<<3, 2, 3>>)}

ParamObjects ==
    {{<<k, f[k]>> : k \in {j \in Keys : f[j] # Absent}} : f \in [Keys -> ParamValues \cup {Absent}]}

\* [null, undefined, ''].includes(value) || (Array.isArray(value) && !value.length)
Cleaned(value) ==
    \/ value \in {NullValue, UndefinedValue, EmptyString}
    \/ value.kind = "array" /\ Len(value.items) = 0

CleanParams(object) == {e \in object : ~Cleaned(e[2])}

SerializeQuery(object) ==
    {IF e[2].kind = "array" THEN <<<<e[1][1], "[]">>, e[2]>> ELSE e : e \in CleanParams(object)}

NoParams == [stage |-> "none", given |-> {}, object |-> {}]

CleanParamsCall ==
    /\ params.stage = "given"
    /\ params' = [params EXCEPT !.stage = "cleanParams", !.object = CleanParams(params.given)]
    /\ UNCHANGED <<handlers, issued, cleared, calls, configDefaults, objects, cookies>>

SerializeQueryCall ==
    /\ params.stage = "given"
    /\ params' = [params EXCEPT !.stage = "serializeQuery", !.object = SerializeQuery(params.given)]
    /\ UNCHANGED <<handlers, issued, cleared, calls, configDefaults, objects, cookies>>

----------------------------------------------------------------------------
(* FetchInstance.request: building the chains *)

RunWhen(pred, config) == config.flag

Skipped_never(e, config) == FALSE

Skipped(e, config) == e.runWhen # "undefined" /\ RunWhen(e.runWhen, config) = FALSE

Stage(e) == [fulfilled |-> e.fulfilled, rejected |-> e.rejected]

\* a dispatch stage that is also the error handler of its then()
DispatchStage_handler == [fulfilled |-> DispatchFn, rejected |-> DispatchFn]

DispatchStage == [fulfilled |-> DispatchFn, rejected |-> UndefinedFn]

Unshift_push(chain, stage) == Append(chain, stage)

Unshift(chain, stage) == <<stage>> \o chain

Push_unshift(chain, stage) == <<stage>> \o chain

Push(chain, stage) == Append(chain, stage)

RECURSIVE RequestInterceptorChain(_, _)
RequestInterceptorChain(es, config) ==
    IF es = << >> THEN << >>
    ELSE LET e == es[Len(es)]
             before == RequestInterceptorChain(SubSeq(es, 1, Len(es) - 1), config)
         IN  IF Skipped(e, config) THEN before ELSE Unshift(before, Stage(e))

RECURSIVE SynchronousRequestInterceptors(_, _)
SynchronousRequestInterceptors(es, config) ==
    IF es = << >> THEN "true"
    ELSE LET e == es[Len(es)]
             before == SynchronousRequestInterceptors(SubSeq(es, 1, Len(es) - 1), config)
         IN  IF Skipped(e, config) THEN before ELSE AndJS(before, e.synchronous)

RECURSIVE ResponseInterceptorChain(_)
ResponseInterceptorChain(es) ==
    IF es = << >> THEN << >>
    ELSE Push(ResponseInterceptorChain(SubSeq(es, 1, Len(es) - 1)), Stage(es[Len(es)]))

AsyncChain(reqChain, resChain) == reqChain \o <<DispatchStage>> \o resChain

----------------------------------------------------------------------------
(* one request() call *)

IdleCall ==
    [pc |-> "idle", request |-> PlainRequest, config |-> PlainRequest, strategy |-> "none",
     reqChain |-> << >>, resChain |-> << >>, chain |-> << >>, i |-> 0,
     promise |-> NoValue, newConfig |-> NoValue,
     caught |-> 0, timer |-> "none", sent |-> << >>, transport |-> << >>, delay |-> 0,
     answer |-> NoValue,
     log |-> << >>, seen |-> [r \in Regs |-> << >>], cleared |-> [r \in Regs |-> 0]]

ApplyFulfilled(fn, v, o) ==
    IF o = "return" THEN Fulfilled(Append(v.trace, fn)) ELSE Rejected(fn)

ApplyRejected(fn, e, o) ==
    CASE o = "return" -> Fulfilled(<<fn>>)
      [] o = "reject" -> e
      [] OTHER -> Rejected(fn)

Settle(call, v) == [call EXCEPT !.pc = "settled", !.promise = v]

SetTimeout(call) == [call EXCEPT !.timer = "armed"]

ClearTimeout(call) == [call EXCEPT !.timer = "cleared"]

Invoked(call, fn) == [call EXCEPT !.log = Append(@, fn)]

\* the transport call #dispatchRequest returns
TransportCall_rawFirst(config) ==
    IF config.raw THEN "raw" ELSE IF config.native THEN "native" ELSE "decoded"

TransportCall(config) ==
    IF config.native THEN "native" ELSE IF config.raw THEN "raw" ELSE "decoded"

\* #dispatchRequest up to the transport call; od = "throw": the XSRF header
\* injection throws before the timer is cleared
DispatchRequest(call, config, od) ==
    IF od = "throw"
    THEN [SetTimeout(Invoked(call, DispatchFn)) EXCEPT !.answer = Rejected(DispatchFn)]
    ELSE [ClearTimeout(SetTimeout(Invoked(call, DispatchFn))) EXCEPT
              !.sent = config.trace, !.transport = Append(@, TransportCall(call.config)),
              !.pc = "transport", !.promise = NoValue]

\* a synchronous strategy that hands the error thrown by the dispatch to the response
\* interceptors
DispatchSync_thread(call, od) ==
    IF od = "throw"
    THEN IF call.resChain = << >>
         THEN Settle(DispatchRequest(call, call.newConfig, od), Rejected(DispatchFn))
         ELSE [DispatchRequest(call, call.newConfig, od) EXCEPT
                   !.chain = call.resChain, !.i = 1, !.pc = "chain",
                   !.promise = Rejected(DispatchFn)]
    ELSE [DispatchRequest(call, call.newConfig, od) EXCEPT !.chain = call.resChain, !.i = 1]

\* the synchronous strategy from the dispatch on
DispatchSync(call, od) ==
    IF od = "throw"
    THEN Settle(DispatchRequest(call, call.newConfig, od), Rejected(DispatchFn))
    ELSE [DispatchRequest(call, call.newConfig, od) EXCEPT !.chain = call.resChain, !.i = 1]

\* a catch block that awaits what onRejected returns
Catch_await(call, onRejected, orj, od) ==
    LET c0 == [call EXCEPT !.caught = call.i - 1]
    IN  IF onRejected = UndefinedFn THEN Settle(c0, Rejected(TypeErrorFn))
        ELSE IF orj # "return" THEN Settle(Invoked(c0, onRejected), Rejected(onRejected))
        ELSE DispatchSync(Invoked(c0, onRejected), od)

\* the catch block of the synchronous loop, entered for the interceptor at position
\* call.i - 1 of requestInterceptorChain
Catch(call, onRejected, orj, od) ==
    LET c0 == [call EXCEPT !.caught = call.i - 1]
    IN  IF onRejected = UndefinedFn THEN Settle(c0, Rejected(TypeErrorFn))
        ELSE IF orj = "throw" THEN Settle(Invoked(c0, onRejected), Rejected(onRejected))
        ELSE DispatchSync(Invoked(c0, onRejected), od)

\* the synchronous loop from its head to the next suspension
SyncRun(call, o, orj, od) ==
    IF call.i <= Len(call.reqChain)
    THEN LET onFulfilled == call.reqChain[call.i].fulfilled
             onRejected == call.reqChain[call.i].rejected
             c1 == [call EXCEPT !.i = @ + 1]
         IN  IF onFulfilled = UndefinedFn THEN Catch(c1, onRejected, orj, od)
             ELSE IF o = "throw" THEN Catch(Invoked(c1, onFulfilled), onRejected, orj, od)
             ELSE [Invoked(c1, onFulfilled) EXCEPT
                       !.pc = "await",
                       !.promise = ApplyFulfilled(onFulfilled, call.newConfig, o)]
    ELSE DispatchSync(call, od)

Advance(call, v) ==
    IF call.i + 1 > Len(call.chain)
    THEN Settle([call EXCEPT !.i = @ + 1], v)
    ELSE [call EXCEPT !.i = @ + 1, !.promise = v]

\* a then() without the handler for the state the promise settled in
PassThrough_swallow(v) == Fulfilled(v.trace)

PassThrough(v) == v

\* a then() that looks its handlers up in the registries when the promise settles
Then_live(call, o, od) ==
    LET res == ResponseInterceptorChain(ForEach(handlers["response"]))
        req == RequestInterceptorChain(ForEach(handlers["request"]), call.config)
        live == IF call.strategy = "async" THEN AsyncChain(req, res) ELSE res
        stage == IF call.i <= Len(live) THEN live[call.i]
                 ELSE [fulfilled |-> UndefinedFn, rejected |-> UndefinedFn]
        v == call.promise
    IN  IF v.st = "fulfilled"
        THEN IF stage.fulfilled = UndefinedFn THEN Advance(call, PassThrough(v))
             ELSE IF stage.fulfilled = DispatchFn
             THEN IF od = "throw"
                  THEN Advance(DispatchRequest(call, v, od), Rejected(DispatchFn))
                  ELSE [DispatchRequest(call, v, od) EXCEPT !.i = @ + 1]
             ELSE Advance(Invoked(call, stage.fulfilled), ApplyFulfilled(stage.fulfilled, v, o))
        ELSE IF stage.rejected = UndefinedFn THEN Advance(call, PassThrough(v))
             ELSE Advance(Invoked(call, stage.rejected), ApplyRejected(stage.rejected, v, o))

\* promise.then(chain[i].fulfilled, chain[i].rejected) reacting to a settled promise
Then(call, o, od) ==
    LET stage == call.chain[call.i]
        v == call.promise
    IN  IF v.st = "fulfilled"
        THEN IF stage.fulfilled = UndefinedFn THEN Advance(call, PassThrough(v))
             ELSE IF stage.fulfilled = DispatchFn
             THEN IF od = "throw"
                  THEN Advance(DispatchRequest(call, v, od), Rejected(DispatchFn))
                  ELSE [DispatchRequest(call, v, od) EXCEPT !.i = @ + 1]
             ELSE Advance(Invoked(call, stage.fulfilled), ApplyFulfilled(stage.fulfilled, v, o))
        ELSE IF stage.rejected = UndefinedFn THEN Advance(call, PassThrough(v))
             ELSE Advance(Invoked(call, stage.rejected), ApplyRejected(stage.rejected, v, o))

XsrfApplies(config) == config.credentials = Include /\ cookies

\* #addXSRFHeader, run by the step that takes the call from before to after: the
\* header is written into the object config.headers refers to; an entry of a header
\* object is the call whose dispatch wrote a header into it
AddXSRFHeader(objs, c, before, after) ==
    IF /\ DispatchFn \notin Range(before.log)
       /\ DispatchFn \in Range(after.log)
       /\ after.timer = "cleared"
       /\ XsrfApplies(after.config)
    THEN [objs EXCEPT ![after.config.headers] = @ \cup {c}]
    ELSE objs

RequestConfig(c, request, o, orj, od) ==
    /\ calls[c].pc = "idle"
    /\ \A d \in 1..(c - 1) : calls[d].pc # "idle"
    /\ LET config == ResolvedConfig(c, request, configDefaults)
           es == ForEach(handlers["request"])
           reqChain == RequestInterceptorChain(es, config)
           sync == SynchronousRequestInterceptors(es, config)
           resChain == ResponseInterceptorChain(ForEach(handlers["response"]))
           base == [IdleCall EXCEPT !.request = request, !.config = config,
                        !.reqChain = reqChain,
                        !.resChain = resChain, !.i = 1,
                        !.seen = [r \in Regs |-> ForEach(handlers[r])],
                        !.cleared = cleared]
       IN  calls' = [calls EXCEPT ![c] =
               IF ~Truthy(sync)
               THEN [base EXCEPT !.strategy = "async", !.pc = "chain",
                         !.chain = AsyncChain(reqChain, resChain),
                         !.promise = Fulfilled(<< >>)]
               ELSE SyncRun([base EXCEPT !.strategy = "sync", !.newConfig = Fulfilled(<< >>)],
                            o, orj, od)]
    /\ objects' = AddXSRFHeader(MergedObjects(objects, c, request, configDefaults),
                                c, calls[c], calls'[c])
    /\ UNCHANGED <<handlers, issued, cleared, configDefaults, cookies, params>>

Request(c, flag, timeout, o, orj, od) ==
    RequestConfig(c, [PlainRequest EXCEPT !.flag = flag, !.timeout = timeout], o, orj, od)

Resume(c, o, orj, od) ==
    /\ calls[c].pc = "await"
    /\ LET call == calls[c]
           v == call.promise
       IN  calls' = [calls EXCEPT ![c] =
               IF v.st = "fulfilled"
               THEN SyncRun([call EXCEPT !.newConfig = v, !.promise = NoValue], o, orj, od)
               ELSE Catch([call EXCEPT !.promise = NoValue],
                          call.reqChain[call.i - 1].rejected, orj, od)]
    /\ objects' = AddXSRFHeader(objects, c, calls[c], calls'[c])
    /\ UNCHANGED <<handlers, issued, cleared, configDefaults, cookies, params>>

ChainStep(c, o, od) ==
    /\ calls[c].pc = "chain"
    /\ calls' = [calls EXCEPT ![c] = Then(calls[c], o, od)]
    /\ objects' = AddXSRFHeader(objects, c, calls[c], calls'[c])
    /\ UNCHANGED <<handlers, issued, cleared, configDefaults, cookies, params>>

Aborted(call, delay) == call.timer = "armed" /\ delay > call.config.timeout

\* a transport that is called again after it failed
TransportSettle_retry(c, delay, ok) ==
    /\ calls[c].pc = "transport"
    /\ LET call == [calls[c] EXCEPT !.delay = delay]
           v == IF ok THEN Fulfilled(Append(call.sent, DispatchFn))
                ELSE Rejected(TransportErrorFn)
           done == [call EXCEPT !.answer = v]
       IN  calls' = [calls EXCEPT ![c] =
               IF ~ok /\ Len(call.transport) < 2
               THEN [Invoked(call, DispatchFn) EXCEPT
                         !.transport = Append(@, TransportCall(call.config))]
               ELSE IF call.i > Len(call.chain) THEN Settle(done, v)
               ELSE [done EXCEPT !.pc = "chain", !.promise = v]]
    /\ UNCHANGED <<handlers, issued, cleared, configDefaults, objects, cookies, params>>

TransportSettle(c, delay, ok) ==
    /\ calls[c].pc = "transport"
    /\ LET call == [calls[c] EXCEPT !.delay = delay]
           v == IF Aborted(call, delay) THEN Rejected(TimeoutErrorFn)
                ELSE IF ok THEN Fulfilled(Append(call.sent, DispatchFn))
                ELSE Rejected(TransportErrorFn)
           done == [call EXCEPT !.answer = v]
       IN  calls' = [calls EXCEPT ![c] =
               IF call.i > Len(call.chain) THEN Settle(done, v)
               ELSE [done EXCEPT !.pc = "chain", !.promise = v]]
    /\ UNCHANGED <<handlers, issued, cleared, configDefaults, objects, cookies, params>>

----------------------------------------------------------------------------

Init ==
    /\ handlers = [r \in Regs |-> << >>]
    /\ issued = [r \in Regs |-> << >>]
    /\ cleared = [r \in Regs |-> 0]
    /\ calls = [c \in CallIds |-> IdleCall]
    /\ configDefaults = NoDefaults
    /\ objects = [h \in HeaderObjects |-> {}]
    /\ cookies = FALSE
    /\ params = NoParams

\* the registrations drawn for a registry: <<has onFulfilled, has onRejected, options>>
UseInputs(reg) ==
    IF reg = "request"
    THEN {<<TRUE, TRUE, NoOptions>>, <<TRUE, FALSE, NoOptions>>, <<FALSE, TRUE, NoOptions>>,
          <<TRUE, TRUE, SyncOptions>>, <<TRUE, FALSE, SyncOptions>>, <<FALSE, TRUE, SyncOptions>>,
          <<TRUE, TRUE, AsyncOptions>>,
          <<TRUE, TRUE, RunWhenOptions>>, <<TRUE, TRUE, SyncRunWhenOptions>>}
    ELSE {<<TRUE, TRUE, NoOptions>>, <<TRUE, FALSE, NoOptions>>, <<FALSE, TRUE, NoOptions>>}

Registrations == Len(issued["request"]) + Len(issued["response"])

Handles == -1..MaxUse

\* no request() has been issued yet
Setup == \A c \in CallIds : calls[c].pc = "idle"

Next ==
    \/ \E reg \in Regs : \E k \in UseInputs(reg) :
          Setup /\ Registrations < MaxUse /\ Use(reg, k[1], k[2], k[3])
    \/ \E reg \in Regs, h \in Handles : Setup /\ Eject(reg, h)
    \/ \E reg \in Regs : Setup /\ Clear(reg)
    \/ \E c \in CallIds, flag \in BOOLEAN, timeout \in Timeouts :
          \E o \in Outcomes, orj \in Outcomes, od \in Outcomes :
              Setup /\ Request(c, flag, timeout, o, orj, od)
    \/ \E c \in CallIds, o \in Outcomes, orj \in Outcomes, od \in Outcomes :
          Resume(c, o, orj, od)
    \/ \E c \in CallIds, o \in Outcomes, od \in Outcomes : ChainStep(c, o, od)
    \/ \E c \in CallIds, delay \in Delays, ok \in BOOLEAN : TransportSettle(c, delay, ok)

Spec == Init /\ [][Next]_vars

\* Several request() calls, one after the other, on a registry of request
\* interceptors that differ in their options; the transport answers in time.
UseInputsCalls ==
    {<<TRUE, TRUE, NoOptions>>, <<TRUE, TRUE, SyncOptions>>,
     <<TRUE, TRUE, RunWhenOptions>>, <<TRUE, TRUE, SyncRunWhenOptions>>}

OutcomesCalls == {"return", "throw"}

\* no other call is in flight
Quiet(c) == \A d \in CallIds \ {c} : calls[d].pc \in {"idle", "settled"}

NextCalls ==
    \/ \E k \in UseInputsCalls :
          Setup /\ Registrations < MaxUse /\ Use("request", k[1], k[2], k[3])
    \/ \E c \in CallIds, flag \in BOOLEAN, timeout \in Timeouts, o \in OutcomesCalls :
          Quiet(c) /\ Request(c, flag, timeout, o, "return", "return")
    \/ \E c \in CallIds, o \in OutcomesCalls : Resume(c, o, "return", "return")
    \/ \E c \in CallIds, o \in OutcomesCalls : ChainStep(c, o, "return")
    \/ \E c \in CallIds : TransportSettle(c, 3, TRUE)

SpecCalls == Init /\ [][NextCalls]_vars

\* One request() call on a client constructed with or without defaults, with at most
\* one request interceptor, for call-site configs that differ in the fields request()
\* and #dispatchRequest read.
DefaultsInputs ==
    {NoDefaults,
     [NoDefaults EXCEPT !.headers = DefaultsHeaders],
     [method |-> Str(<<"p", "u", "t">>),
      baseURL |-> Str(<<"h", "t", "t", "p", ":", "/", "/", "c">>),
      credentials |-> Include, headers |-> DefaultsHeaders]}

RequestInputs(c) ==
    LET plain == [PlainRequest EXCEPT !.timeout = 5]
    IN  {plain,
         [plain EXCEPT !.method = Str(<<"g", "e", "t">>),
                       !.url = Str(<<"h", "t", "t", "p", ":", "/", "/", "a">>),
                       !.baseURL = Str(<<"h", "t", "t", "p", ":", "/", "/", "b">>)],
         [plain EXCEPT !.method = Str(<<"P", "o", "s", "t">>),
                       !.url = Str(<<"h", "t", "t", "p", "s", ":", "/", "/", "a">>),
                       !.native = TRUE],
         [plain EXCEPT !.raw = TRUE,
                       !.url = Str(<<"h", "t", "t", "p", "d", "/", "a">>),
                       !.baseURL = Str(<<"h", "t", "t", "p", ":", "/", "/", "b">>),
                       !.headers = ArgHeaders(c), !.credentials = Include],
         [plain EXCEPT !.native = TRUE, !.raw = TRUE, !.method = Str(<<"G", "E", "T">>)],
         [plain EXCEPT !.credentials = Include]}

UseInputsConfig == {<<TRUE, TRUE, NoOptions>>, <<TRUE, TRUE, SyncOptions>>}

\* config.headers[...] = ... on a config without headers is a TypeError
XsrfThrows(config) == XsrfApplies(config) /\ config.headers = NoObject

InitConfig ==
    /\ handlers = [r \in Regs |-> << >>]
    /\ issued = [r \in Regs |-> << >>]
    /\ cleared = [r \in Regs |-> 0]
    /\ calls = [c \in CallIds |-> IdleCall]
    /\ configDefaults \in DefaultsInputs
    /\ objects = [h \in HeaderObjects |-> {}]
    /\ cookies \in BOOLEAN
    /\ params = NoParams

NextConfig ==
    \/ \E k \in UseInputsConfig :
          Setup /\ Registrations = 0 /\ Use("request", k[1], k[2], k[3])
    \/ \E c \in CallIds, o \in OutcomesCalls, od \in OutcomesCalls : \E request \in RequestInputs(c) :
          /\ Setup
          /\ XsrfThrows(ResolvedConfig(c, request, configDefaults)) => od = "throw"
          /\ RequestConfig(c, request, o, "return", od)
    \/ \E c \in CallIds, o \in OutcomesCalls, od \in OutcomesCalls :
          /\ XsrfThrows(calls[c].config) => od = "throw"
          /\ Resume(c, o, "return", od)
    \/ \E c \in CallIds, o \in OutcomesCalls, od \in OutcomesCalls :
          /\ XsrfThrows(calls[c].config) => od = "throw"
          /\ ChainStep(c, o, od)
    \/ \E c \in CallIds, ok \in BOOLEAN : TransportSettle(c, 3, ok)

SpecConfig == InitConfig /\ [][NextConfig]_vars

\* One request() call on a client whose request interceptors were registered with
\* use(f, r) or with onRequestError(fn), and its response interceptors with
\* onResponseError(fn).
FnOutcomes == {"value", "falsy", "rejected", "throw"}

\* (error) => fn(error) || Promise.reject(error), when it always rejects
ErrorHook_reject(fo) == IF fo = "throw" THEN "throw" ELSE "reject"

\* (error) => fn(error) || Promise.reject(error): what the wrapper does to its stage
\* for each thing fn can do
ErrorHook(fo) ==
    CASE fo = "value" -> "return"
      [] fo = "falsy" -> "reject"
      [] OTHER -> "throw"

OnRequestError == Use("request", FALSE, TRUE, NoOptions)

OnResponseError == Use("response", FALSE, TRUE, NoOptions)

\* the promise chain of the call has reached a stage registered by onRequestError or
\* onResponseError
AtErrorHook(call) ==
    /\ call.pc = "chain"
    /\ call.chain[call.i].fulfilled = UndefinedFn

NextHooks ==
    \/ Setup /\ Registrations <= MaxUse /\ Use("request", TRUE, TRUE, NoOptions)
    \/ Setup /\ Registrations <= MaxUse /\ OnRequestError
    \/ Setup /\ Registrations <= MaxUse /\ OnResponseError
    \/ \E c \in CallIds, od \in Outcomes :
          Setup /\ Request(c, FALSE, 5, "return", "return", od)
    \/ \E c \in CallIds, o \in Outcomes, fo \in FnOutcomes, od \in Outcomes :
          ChainStep(c, IF AtErrorHook(calls[c]) THEN ErrorHook(fo) ELSE o, od)
    \/ \E c \in CallIds, ok \in BOOLEAN : TransportSettle(c, 3, ok)

SpecHooks == Init /\ [][NextHooks]_vars

\* Concurrent request() calls on a client whose defaults ask for the XSRF header, in a
\* browser that may hold the cookie; a call site passes its own headers or none.
DefaultsInputsShared ==
    {[NoDefaults EXCEPT !.credentials = Include],
     [NoDefaults EXCEPT !.credentials = Include, !.headers = DefaultsHeaders]}

RequestInputsShared(c) ==
    {[PlainRequest EXCEPT !.timeout = 5],
     [PlainRequest EXCEPT !.timeout = 5, !.headers = ArgHeaders(c)]}

InitShared ==
    /\ handlers = [r \in Regs |-> << >>]
    /\ issued = [r \in Regs |-> << >>]
    /\ cleared = [r \in Regs |-> 0]
    /\ calls = [c \in CallIds |-> IdleCall]
    /\ configDefaults \in DefaultsInputsShared
    /\ objects = [h \in HeaderObjects |-> {}]
    /\ cookies \in BOOLEAN
    /\ params = NoParams

\* the outcome of the dispatch of a call with this config, which nothing else makes fail
DispatchOutcome(config) == IF XsrfThrows(config) THEN "throw" ELSE "return"

NextShared ==
    \/ \E k \in UseInputsConfig :
          Setup /\ Registrations = 0 /\ Use("request", k[1], k[2], k[3])
    \/ \E c \in CallIds : \E request \in RequestInputsShared(c) :
          RequestConfig(c, request, "return", "return",
                        DispatchOutcome(ResolvedConfig(c, request, configDefaults)))
    \/ \E c \in CallIds : Resume(c, "return", "return", DispatchOutcome(calls[c].config))
    \/ \E c \in CallIds : ChainStep(c, "return", DispatchOutcome(calls[c].config))
    \/ \E c \in CallIds : TransportSettle(c, 3, TRUE)

SpecShared == InitShared /\ [][NextShared]_vars

\* request() calls one after the other, with use(), eject() and clear() on both
\* registries before the first call and while the first call is in flight.
UseInputsInFlight(reg) ==
    IF reg = "request"
    THEN {<<TRUE, TRUE, NoOptions>>, <<TRUE, TRUE, SyncOptions>>}
    ELSE {<<TRUE, TRUE, NoOptions>>}

\* a request() has been issued and has not settled
Busy == \E c \in CallIds : calls[c].pc \notin {"idle", "settled"}

\* no request() has been issued, or the first one has not settled
Mutable == calls[1].pc # "settled"

NextInFlight ==
    \/ \E reg \in Regs : \E k \in UseInputsInFlight(reg) :
          Mutable /\ Registrations < MaxUse /\ Use(reg, k[1], k[2], k[3])
    \/ \E reg \in Regs, h \in Handles : Mutable /\ Eject(reg, h)
    \/ \E reg \in Regs : Mutable /\ Clear(reg)
    \/ \E c \in CallIds, o \in OutcomesCalls :
          ~Busy /\ Request(c, FALSE, 5, o, "return", "return")
    \/ \E c \in CallIds, o \in OutcomesCalls : Resume(c, o, "return", "return")
    \/ \E c \in CallIds, o \in OutcomesCalls : ChainStep(c, o, "return")
    \/ \E c \in CallIds : TransportSettle(c, 3, TRUE)

SpecInFlight == Init /\ [][NextInFlight]_vars

\* One request() call in which every interceptor function that is called returns, the
\* dispatch does not throw and the transport answers.
NextNoFailure ==
    \/ \E reg \in Regs : \E k \in UseInputs(reg) :
          Setup /\ Registrations < MaxUse /\ Use(reg, k[1], k[2], k[3])
    \/ \E reg \in Regs, h \in Handles : Setup /\ Eject(reg, h)
    \/ \E reg \in Regs : Setup /\ Clear(reg)
    \/ \E c \in CallIds, flag \in BOOLEAN, timeout \in Timeouts :
          Setup /\ Request(c, flag, timeout, "return", "return", "return")
    \/ \E c \in CallIds : Resume(c, "return", "return", "return")
    \/ \E c \in CallIds : ChainStep(c, "return", "return")
    \/ \E c \in CallIds, delay \in Delays : TransportSettle(c, delay, TRUE)

SpecNoFailure == Init /\ [][NextNoFailure]_vars

\* The two functions that clean the query parameters, each applied to a parameter
\* object drawn from ParamObjects.
InitParams ==
    /\ handlers = [r \in Regs |-> << >>]
    /\ issued = [r \in Regs |-> << >>]
    /\ cleared = [r \in Regs |-> 0]
    /\ calls = [c \in CallIds |-> IdleCall]
    /\ configDefaults = NoDefaults
    /\ objects = [h \in HeaderObjects |-> {}]
    /\ cookies = FALSE
    /\ params \in {[stage |-> "given", given |-> object, object |-> object] : object \in ParamObjects}

NextParams ==
    \/ CleanParamsCall
    \/ SerializeQueryCall

SpecParams == InitParams /\ [][NextParams]_vars

----------------------------------------------------------------------------
(* vocabulary of the properties *)

RECURSIVE Reverse(_)
Reverse(seq) == IF seq = << >> THEN << >> ELSE Append(Reverse(Tail(seq)), Head(seq))

Present(fns) == SelectSeq(fns, LAMBDA f : f # UndefinedFn)

FulfilledFns(es) == Present([k \in 1..Len(es) |-> es[k].fulfilled])

LiveIds(hs) == {hs[k].id : k \in {j \in DOMAIN hs : hs[j] # Null}}

\* the entries of es that a call with this config does not skip
Running(es, config) == SelectSeq(es, LAMBDA e : ~(e.runWhen = "flag" /\ ~config.flag))

Dispatched(call) == DispatchFn \in Range(call.log)

DispatchAt(call) == CHOOSE k \in DOMAIN call.log : call.log[k] = DispatchFn

BeforeDispatch(call) == SubSeq(call.log, 1, DispatchAt(call) - 1)

OfRegistry(log, reg) == SelectSeq(log, LAMBDA fn : fn[1] = reg)

----------------------------------------------------------------------------
\* C3: eject(h) on an occupied handle removes exactly that entry: forEach afterwards
\* visits the other live entries, each once and in their former order, the other
\* handles designate the entries they designated before, and an entry that is no
\* longer live is never visited again.
C3_EjectRemovesExactlyThatEntry ==
    [][/\ \A reg \in Regs, h \in Handles :
            (Eject(reg, h) /\ Slot(handlers[reg], h) # Null) =>
                LET gone == Slot(handlers[reg], h)
                IN  /\ ForEach(handlers'[reg]) =
                           SelectSeq(ForEach(handlers[reg]), LAMBDA e : e # gone)
                    /\ gone \notin Range(ForEach(handlers'[reg]))
                    /\ \A g \in Handles \ {h} : Slot(handlers'[reg], g) = Slot(handlers[reg], g)
       /\ \A reg \in Regs : \A id \in 1..Len(issued[reg]) :
            id \notin LiveIds(handlers[reg]) => id \notin LiveIds(handlers'[reg])]_vars

\* the first of two entries has been ejected and the second is still live
C3_Witness ==
    \E reg \in Regs :
        /\ Len(handlers[reg]) = 2
        /\ handlers[reg][1] = Null
        /\ LiveIds(handlers[reg]) = {2}

\* C4: use() never returns a handle value it returned before.
C4_HandlesNeverReused ==
    \A reg \in Regs : \A j, k \in DOMAIN issued[reg] :
        j # k => issued[reg][j] # issued[reg][k]

\* C5: an entry registered before the latest clear() is not visited by forEach, and a
\* request issued after a clear() runs no function registered before that clear().
C5_ClearEmptiesRegistry ==
    /\ \A reg \in Regs : \A id \in LiveIds(handlers[reg]) : id > cleared[reg]
    /\ \A c \in CallIds : \A fn \in Range(calls[c].log) :
           fn[1] \in Regs => fn[2] > calls[c].cleared[fn[1]]

\* a request issued after a clear() of a registry that held an entry has run an
\* interceptor registered after the clear()
C5_Witness ==
    \E c \in CallIds :
        /\ calls[c].pc = "settled"
        /\ calls[c].cleared["request"] > 0
        /\ OfRegistry(calls[c].log, "request") # << >>

\* C1: in the asynchronous strategy, when no stage before the dispatch has failed, the
\* functions run before the terminal dispatch are the onFulfilled of the request
\* interceptors the call does not skip, each once, last registered first, and the
\* config handed to the transport is the one they produced in that order.
C1_RequestInterceptorsLastFirst ==
    \A c \in CallIds :
        LET call == calls[c]
            expected == Reverse(FulfilledFns(Running(call.seen["request"], call.config)))
        IN  (/\ call.strategy = "async"
             /\ Dispatched(call)
             /\ \A fn \in Range(BeforeDispatch(call)) : fn[3] # "rejected")
            => /\ BeforeDispatch(call) = expected
               /\ call.timer = "cleared" => call.sent = expected

\* two request interceptors, none ejected or skipped, have run before the dispatch
C1_Witness ==
    \E c \in CallIds :
        /\ calls[c].strategy = "async"
        /\ calls[c].pc = "transport"
        /\ Len(handlers["request"]) = 2
        /\ Len(calls[c].seen["request"]) = 2
        /\ calls[c].sent = <<<<"request", 2, "fulfilled">>, <<"request", 1, "fulfilled">>>>

AllSynchronous(es) == \A k \in DOMAIN es : es[k].synchronous = "true"

StrategyFor(es) == IF AllSynchronous(es) THEN "sync" ELSE "async"

SkippedHas(call, e) == e.runWhen = "flag" /\ ~call.config.flag

RunWhenRespected(call) ==
    LET es == call.seen["request"]
        running == Running(es, call.config)
    IN  call.pc # "idle" =>
          /\ \A k \in DOMAIN es :
                 SkippedHas(call, es[k]) =>
                     es[k].fulfilled \notin Range(call.log) /\ es[k].rejected \notin Range(call.log)
          /\ call.strategy = StrategyFor(running)
          /\ (Dispatched(call) /\ \A fn \in Range(BeforeDispatch(call)) : fn[3] # "rejected")
                 => BeforeDispatch(call) = Reverse(FulfilledFns(running))

AllRunWhenRespected == \A c \in CallIds : RunWhenRespected(calls[c])

\* C6: on a call whose config makes an entry's runWhen return false, neither function
\* of that entry runs and the strategy is the one chosen without it, while the
\* other live entries run in their usual order; a call changes no registry slot, and
\* a call whose config makes runWhen return true runs the entry.
C6_RunWhenSkipsThatCallOnly ==
    [][/\ AllRunWhenRespected'
       /\ calls' # calls => handlers' = handlers]_vars

\* the first call skipped an entry and ran another one; the second call ran the entry
C6_Witness ==
    \E k \in DOMAIN handlers["request"] :
        LET e == handlers["request"][k]
        IN  /\ calls[1].pc = "settled"
            /\ SkippedHas(calls[1], e)
            /\ e \in Range(calls[1].seen["request"])
            /\ OfRegistry(calls[1].log, "request") # << >>
            /\ calls[2].config.flag
            /\ e.fulfilled \in Range(calls[2].log)

\* C7 as stated: a live request interceptor that is not declared synchronous makes
\* the call asynchronous.
C7_AnyNonSynchronousMakesAsync ==
    \A c \in CallIds :
        LET call == calls[c]
        IN  (call.pc # "idle" /\ ~AllSynchronous(call.seen["request"]))
                => call.strategy = "async"

\* C7 amended: a live request interceptor that the call does not skip and that is
\* not declared synchronous makes the call asynchronous, whatever the others declare.
C7_RunningNonSynchronousMakesAsync ==
    \A c \in CallIds :
        LET call == calls[c]
        IN  (call.pc # "idle" /\ ~AllSynchronous(Running(call.seen["request"], call.config)))
                => call.strategy = "async"

\* one interceptor declared synchronous and one registered without options: asynchronous
C7_Witness ==
    \E c \in CallIds :
        LET es == calls[c].seen["request"]
        IN  /\ calls[c].strategy = "async"
            /\ Len(es) = 2
            /\ Cardinality({k \in DOMAIN es : es[k].synchronous = "true"}) = 1
            /\ \A k \in DOMAIN es : es[k].runWhen = "undefined"

\* the onFulfilled of the first n stages of a chain
FulfilledOfStages(chain, n) == [k \in 1..n |-> chain[k].fulfilled]

StageFns(chain, from) ==
    {chain[k].fulfilled : k \in from..Len(chain)} \cup {chain[k].rejected : k \in from..Len(chain)}

\* C8: in the synchronous strategy, when the request interceptor at execution position
\* k fails, the interceptors at positions k+1..N are not run and the terminal dispatch
\* is performed with the config produced by the interceptors before k.
C8_SyncFailureStillDispatches ==
    \A c \in CallIds :
        LET call == calls[c]
            k == call.caught
        IN  (call.strategy = "sync" /\ k > 0)
                => /\ \A fn \in StageFns(call.reqChain, k + 1) :
                          fn = UndefinedFn \/ fn \notin Range(call.log)
                   /\ Dispatched(call)
                   /\ call.timer = "cleared" =>
                          call.sent = FulfilledOfStages(call.reqChain, k - 1)

\* one then() of the asynchronous chain that meets a rejection
RejectionStep(before, after) ==
    LET stage == before.chain[before.i]
        e == before.promise
    IN  (before.pc = "chain" /\ after # before /\ before.strategy = "async"
         /\ e.st = "rejected")
            => /\ after.pc \in {"chain", "settled"}
               /\ IF stage.rejected = UndefinedFn
                  THEN after.log = before.log /\ after.promise = e
                  ELSE /\ after.log = Append(before.log, stage.rejected)
                       /\ after.promise \in
                              {e, Fulfilled(<<stage.rejected>>), Rejected(stage.rejected)}

\* the rejection a call settles with is the one produced by the last function it ran
\* (for the dispatch: by the dispatch or by the transport), unless that function is
\* an onRejected, which may also have passed on the rejection it was given
SettledRejection(call) ==
    (call.strategy = "async" /\ call.pc = "settled" /\ call.promise.st = "rejected")
        => LET last == call.log[Len(call.log)]
               reason == call.promise.reason
           IN  /\ call.log # << >>
               /\ reason \in Range(call.log) \cup {TransportErrorFn, TimeoutErrorFn}
               /\ last[3] = "fulfilled" => reason = last
               /\ last = DispatchFn =>
                      reason \in {DispatchFn, TransportErrorFn, TimeoutErrorFn}

\* C9: in the asynchronous strategy a stage that meets a rejection runs its onRejected
\* with it, and nothing else, when it has one; when it has none it runs nothing and
\* passes the same rejection on; a rejection that no later onRejected has met is the
\* one the call settles with.
C9_RejectionGoesToNextOnRejected ==
    [][\A c \in CallIds :
          /\ RejectionStep(calls[c], calls'[c])
          /\ SettledRejection(calls'[c])]_vars

\* the first request interceptor to run has failed, no later stage has an onRejected,
\* and the call has settled with that error without running anything else
C9_Witness ==
    \E c \in CallIds :
        LET call == calls[c]
        IN  /\ call.strategy = "async"
            /\ call.pc = "settled"
            /\ Len(call.chain) = 3
            /\ \A k \in 2..3 : call.chain[k].rejected = UndefinedFn
            /\ call.log = <<call.chain[1].fulfilled>>
            /\ call.promise = Rejected(call.chain[1].fulfilled)

\* C10: a call whose transport answers later than config.timeout settles as a timeout
\* failure (unless a response interceptor's onRejected has handled it).
C10_TimeoutAbortsSlowTransport ==
    \A c \in CallIds :
        LET call == calls[c]
        IN  (/\ call.pc = "settled"
             /\ call.delay > call.config.timeout
             /\ \A fn \in Range(OfRegistry(call.log, "response")) : fn[3] # "rejected")
                => call.promise = Rejected(TimeoutErrorFn)

\* C11: a request() call makes at most one transport call; a call whose terminal
\* dispatch reaches its transport call makes exactly one, the native one when
\* config.native is set, else the raw one when config.raw is set, else the decoded
\* one; a call that settles without reaching it makes none.
C11_OneTransportCallByFlags ==
    \A c \in CallIds :
        LET call == calls[c]
            reached == call.timer = "cleared"
        IN  /\ Len(call.transport) <= 1
            /\ reached =>
                   /\ Len(call.transport) = 1
                   /\ call.config.native => call.transport[1] = "native"
                   /\ (~call.config.native /\ call.config.raw) => call.transport[1] = "raw"
                   /\ (~call.config.native /\ ~call.config.raw) => call.transport[1] = "decoded"
            /\ ~reached => call.transport = << >>

\* C11 as stated: every request() call makes exactly one transport call, never none.
C11_EveryCallMakesOneTransportCall ==
    \A c \in CallIds :
        calls[c].pc = "settled" =>
            /\ Len(calls[c].transport) = 1
            /\ calls[c].transport[1] =
                   (IF calls[c].config.native THEN "native"
                    ELSE IF calls[c].config.raw THEN "raw" ELSE "decoded")

\* a call with both flags set has settled after its one, native, transport call
C11_Witness ==
    \E c \in CallIds :
        /\ calls[c].pc = "settled"
        /\ calls[c].config.native /\ calls[c].config.raw
        /\ calls[c].transport = <<"native">>
        /\ calls[c].promise.st = "fulfilled"

Count(seq, x) == Cardinality({k \in DOMAIN seq : seq[k] = x})

\* the onRejected functions of response interceptors that the call has run
ResponseRejectedRun(call) ==
    {fn \in Range(call.log) : fn[1] = "response" /\ fn[3] = "rejected"}

\* a step of the pipeline of call c
PipelineStep(c) ==
    \/ \E o \in Outcomes, orj \in Outcomes, od \in Outcomes : Resume(c, o, orj, od)
    \/ \E o \in Outcomes, od \in Outcomes : ChainStep(c, o, od)
    \/ \E delay \in Delays, ok \in BOOLEAN : TransportSettle(c, delay, ok)

\* C12: a request() call runs the terminal dispatch at most once and makes at most one
\* transport call; once settled, its pipeline takes no further step; and when the
\* dispatch has failed, the call settles fulfilled only with the value of a response
\* onRejected that it ran, and if it ran none it settles rejected with the error of the
\* dispatch.
C12_NoRetrySettlesOnce ==
    \A c \in CallIds :
        LET call == calls[c]
        IN  /\ Count(call.log, DispatchFn) <= 1
            /\ Len(call.transport) <= 1
            /\ call.pc = "settled" => ~ENABLED PipelineStep(c)
            /\ (call.pc = "settled" /\ call.answer.st = "rejected") =>
                   IF call.promise.st = "fulfilled"
                   THEN /\ call.promise.trace # << >>
                        /\ Head(call.promise.trace) \in ResponseRejectedRun(call)
                   ELSE ResponseRejectedRun(call) = {} => call.promise = call.answer

\* the transport has failed, a response interceptor without onRejected has been
\* passed, and the call has settled with the error of the transport
C12_Witness ==
    \E c \in CallIds :
        /\ calls[c].pc = "settled"
        /\ calls[c].transport # << >>
        /\ calls[c].answer = Rejected(TransportErrorFn)
        /\ calls[c].promise = Rejected(TransportErrorFn)
        /\ Len(calls[c].resChain) = 1
        /\ calls[c].resChain[1].rejected = UndefinedFn
        /\ Count(calls[c].log, DispatchFn) = 1

InFlight(call) == call.pc \notin {"idle", "settled"}

\* C13: a header written by the dispatch of one call is in no header object that the
\* client's defaults or the config of another call, in flight at the same time, refer to.
C13_CallsShareNoConfigState ==
    /\ configDefaults.headers # NoObject => objects[configDefaults.headers] = {}
    /\ \A c \in CallIds, d \in CallIds :
           (/\ c # d
            /\ InFlight(calls[c])
            /\ InFlight(calls[d])
            /\ calls[d].config.headers # NoObject)
           => c \notin objects[calls[d].config.headers]

\* the stage of the request chain the call is at was registered by onRequestError
\* and receives a rejection
ErrorHookReached(call) ==
    /\ AtErrorHook(call)
    /\ call.i <= Len(call.reqChain)
    /\ call.promise.st = "rejected"

\* the functions run before the dispatch, from the last onRejected among them on
FromLastRejected(call) ==
    LET ran == BeforeDispatch(call)
        last == CHOOSE p \in DOMAIN ran :
                    ran[p][3] = "rejected" /\ \A q \in DOMAIN ran : q > p => ran[q][3] # "rejected"
    IN  SubSeq(ran, last, Len(ran))

\* C14: when the stage registered by onRequestError(fn) receives the rejection e of the
\* stage before it, fn is called, once; when fn returns a truthy value that is not a
\* rejected promise, that value is the configuration the following stages receive and
\* the dispatch sends is that value as the following stages transformed it; when fn returns a rejected promise
\* or throws, the pipeline is rejected with fn's error; when fn returns a falsy value
\* it is rejected with e again.
C14_OnRequestErrorRecovers ==
    [][\A c \in CallIds :
          LET call == calls[c]
              after == calls'[c]
              hook == call.chain[call.i].rejected
          IN  /\ \A fo \in FnOutcomes, od \in Outcomes :
                     (ErrorHookReached(call) /\ ChainStep(c, ErrorHook(fo), od)) =>
                         /\ after.log = Append(call.log, hook)
                         /\ fo = "value" => after.promise = Fulfilled(<<hook>>)
                         /\ fo \in {"rejected", "throw"} => after.promise = Rejected(hook)
                         /\ fo = "falsy" => after.promise = call.promise
              /\ (/\ after.strategy = "async"
                  /\ Dispatched(after)
                  /\ after.timer = "cleared"
                  /\ \E fn \in Range(BeforeDispatch(after)) : fn[3] = "rejected")
                 => /\ after.sent = FromLastRejected(after)
                    /\ Head(after.sent)[3] = "rejected"]_vars

\* the interceptor registered after the onRequestError hook has rejected, fn has
\* returned a config, the interceptor registered before the hook has transformed it,
\* and the dispatch has sent the result to the transport
C14_Witness ==
    \E c \in CallIds :
        /\ calls[c].pc = "transport"
        /\ Len(calls[c].seen["request"]) = 3
        /\ calls[c].seen["request"][2].fulfilled = UndefinedFn
        /\ calls[c].log = <<<<"request", 3, "fulfilled">>, <<"request", 2, "rejected">>,
                            <<"request", 1, "fulfilled">>, DispatchFn>>
        /\ calls[c].sent = <<<<"request", 2, "rejected">>, <<"request", 1, "fulfilled">>>>

\* the method the call site gives, else the one the defaults give
GivenMethod(call) ==
    IF call.request.method.def THEN call.request.method ELSE configDefaults.method

\* C15: the config of a call has a method, without lower-case letters: the call-site
\* method upper-cased, else the default method upper-cased, else GET.
C15_MethodUpperCaseOrGet ==
    \A c \in CallIds :
        LET call == calls[c]
        IN  call.pc # "idle" =>
                /\ call.config.method.def
                /\ \A k \in DOMAIN call.config.method.val :
                       call.config.method.val[k] \notin DOMAIN UpperCase
                /\ call.config.method.val =
                       (IF GivenMethod(call).def THEN ToUpperCase(GivenMethod(call).val)
                        ELSE <<"G", "E", "T">>)

Absolute(url) ==
    /\ url.def
    /\ \/ StartsWith(url.val, <<"h", "t", "t", "p", ":", "/", "/">>)
       \/ StartsWith(url.val, <<"h", "t", "t", "p", "s", ":", "/", "/">>)

\* C17: when the call site or the defaults give a baseURL and the URL of the call
\* starts with http:// or https://, the config of the call has no baseURL and its
\* url is the URL given.
C17_AbsoluteUrlDropsBaseURL ==
    \A c \in CallIds :
        LET call == calls[c]
        IN  (/\ call.pc # "idle"
             /\ call.request.baseURL.def \/ configDefaults.baseURL.def
             /\ Absolute(call.request.url))
            => /\ ~call.config.baseURL.def
               /\ call.config.url = call.request.url

\* a call to an https:// URL, on a client whose defaults give a baseURL, has reached
\* the transport
C17_Witness ==
    \E c \in CallIds :
        /\ calls[c].pc = "transport"
        /\ configDefaults.baseURL.def
        /\ ~calls[c].request.baseURL.def
        /\ StartsWith(calls[c].request.url.val, <<"h", "t", "t", "p", "s", ":", "/", "/">>)
        /\ ~calls[c].config.baseURL.def

\* the members of an array, each kept at its first occurrence only
RECURSIVE Deduplicated(_)
Deduplicated(items) ==
    IF items = << >> THEN << >>
    ELSE LET front == Deduplicated(SubSeq(items, 1, Len(items) - 1))
             last == items[Len(items)]
         IN  IF last \in Range(front) THEN front ELSE Append(front, last)

\* what the cleaning is to yield for an object: by key name, the values that are not
\* null, undefined, '' or an empty array, arrays without their duplicate members
ExpectedParams(object) ==
    {<<e[1][1], IF e[2].kind = "array" THEN Array(Deduplicated(e[2].items)) ELSE e[2]>> :
        e \in {d \in object : d[2].kind \in {"number", "array"} /\ d[2].items # << >>}}

\* C16: cleaning a parameter object removes the keys whose value is null, undefined,
\* the empty string or an empty array, keeps the other keys, and removes the duplicate
\* members of array values.
C16_CleaningRemovesEmptyAndDuplicates ==
    params.stage \in {"cleanParams", "serializeQuery"} =>
        {<<e[1][1], e[2]>> : e \in params.object} = ExpectedParams(params.given)

\* the onRejected paired with the interceptor the catch block was entered for
Paired(call) == call.reqChain[call.caught].rejected

C19_OneSidedEntriesTolerated ==
    \A c \in CallIds :
        LET call == calls[c]
        IN  /\ call.caught > 0 => call.reqChain[call.caught].fulfilled # UndefinedFn
            /\ call.promise.reason # TypeErrorFn

\* the onRejected functions of the response interceptors the call saw, in
\* registration order
ResponseRejectedSeen(call) ==
    Present([k \in 1..Len(call.seen["response"]) |-> call.seen["response"][k].rejected])

\* C20: in the asynchronous strategy, a rejection that reaches the dispatch stage
\* passes it unchanged: the dispatch is not run, no timer is set and no transport call
\* is made; the first function run after it is the onRejected of the first response
\* interceptor that has one, and if none has one the call settles rejected with that
\* error, having run no response function.
C20_DispatchStagePassesRejection ==
    [][\A c \in CallIds :
          LET call == calls[c]
              after == calls'[c]
          IN  /\ (/\ call.strategy = "async"
                  /\ call.pc = "chain"
                  /\ call.chain[call.i].fulfilled = DispatchFn
                  /\ call.promise.st = "rejected"
                  /\ after # call)
                 => /\ after.log = call.log
                    /\ after.promise = call.promise
                    /\ after.timer = "none"
                    /\ after.transport = << >>
                    /\ after.pc \in {"chain", "settled"}
              /\ (/\ after.strategy = "async"
                  /\ after.i > Len(after.reqChain) + 1
                  /\ ~Dispatched(after))
                 => /\ after.transport = << >>
                    /\ OfRegistry(after.log, "response") # << >> =>
                           /\ ResponseRejectedSeen(after) # << >>
                           /\ Head(OfRegistry(after.log, "response")) =
                                  Head(ResponseRejectedSeen(after))
                    /\ (after.pc = "settled" /\ ResponseRejectedSeen(after) = << >>) =>
                           /\ OfRegistry(after.log, "response") = << >>
                           /\ after.promise.st = "rejected"]_vars

\* a request interceptor has rejected, the dispatch was passed over, and the
\* onRejected of the response interceptor has turned the call into a success
C20_Witness ==
    \E c \in CallIds :
        /\ calls[c].strategy = "async"
        /\ calls[c].pc = "settled"
        /\ calls[c].log = <<<<"request", 1, "fulfilled">>, <<"response", 1, "rejected">>>>
        /\ calls[c].transport = << >>
        /\ calls[c].promise = Fulfilled(<<<<"response", 1, "rejected">>>>)

\* C21: in the synchronous strategy, a call whose terminal dispatch has thrown is
\* settled, rejected with the error the dispatch threw, and has run no function of a
\* response interceptor.
C21_SyncDispatchThrowRejects ==
    \A c \in CallIds :
        LET call == calls[c]
        IN  (call.strategy = "sync" /\ call.answer = Rejected(DispatchFn))
                => /\ call.pc = "settled"
                   /\ call.promise = Rejected(DispatchFn)
                   /\ OfRegistry(call.log, "response") = << >>
                   /\ call.transport = << >>

\* the dispatch of a synchronous call has thrown on a client with a response
\* interceptor that has both functions
C21_Witness ==
    \E c \in CallIds :
        /\ calls[c].strategy = "sync"
        /\ calls[c].pc = "settled"
        /\ calls[c].answer = Rejected(DispatchFn)
        /\ Len(calls[c].resChain) = 1
        /\ calls[c].resChain[1].fulfilled # UndefinedFn
        /\ calls[c].resChain[1].rejected # UndefinedFn
        /\ calls[c].log = <<DispatchFn>>

\* C22: for a handle whose slot is empty or that is out of range, eject leaves the
\* registry as it is: forEach visits the same entries in the same order, every handle
\* designates what it designated, and the next use() returns the handle it would have
\* returned without the eject.
C22_EjectOfEmptySlotIsNoOp ==
    \A reg \in Regs, h \in Handles :
        Slot(handlers[reg], h) = Null =>
            LET hs == Ejected(handlers[reg], h)
                entry == NewEntry(reg, Len(issued[reg]) + 1, TRUE, TRUE, NoOptions)
            IN  /\ hs = handlers[reg]
                /\ ForEach(hs) = ForEach(handlers[reg])
                /\ \A g \in Handles : Slot(hs, g) = Slot(handlers[reg], g)
                /\ UseHandle(Pushed(hs, entry)) = UseHandle(Pushed(handlers[reg], entry))

\* a registry whose first entry is live and whose last entry has been ejected: the
\* handles -1 and 2 are out of range and the handle 1 designates an empty slot
C22_Witness ==
    \E reg \in Regs :
        /\ Len(handlers[reg]) = 2
        /\ handlers[reg][1] # Null
        /\ handlers[reg][2] = Null
        /\ Slot(handlers[reg], -1) = Null
        /\ Slot(handlers[reg], 2) = Null

\* the functions of the entries es, as the stages of a chain hold them
FnsOf(es) == {es[k].fulfilled : k \in DOMAIN es} \cup {es[k].rejected : k \in DOMAIN es}

\* C23: what a call runs is decided by the two registries as they were when request()
\* was called, whatever use(), eject() and clear() did to them since: every
\* interceptor function the call has run belongs to an entry that was live then, the
\* request interceptors have run last registered first and the response interceptors
\* first registered first, and a call that settled without a failure has run exactly
\* the onFulfilled of the entries that were live then.
C23_ChainFixedAtCall ==
    \A c \in CallIds :
        LET call == calls[c]
            req == OfRegistry(call.log, "request")
            res == OfRegistry(call.log, "response")
        IN  /\ \A fn \in Range(call.log) :
                   fn[1] \in Regs => fn \in FnsOf(call.seen[fn[1]])
            /\ \A j, k \in DOMAIN req : j < k => req[j][2] >= req[k][2]
            /\ \A j, k \in DOMAIN res : j < k => res[j][2] <= res[k][2]
            /\ (/\ call.pc = "settled"
                /\ call.promise.st = "fulfilled"
                /\ \A fn \in Range(call.log) : fn[3] # "rejected")
               => call.log = Reverse(FulfilledFns(Running(call.seen["request"], call.config)))
                                 \o <<DispatchFn>> \o FulfilledFns(call.seen["response"])

\* a call has settled after running a request and a response interceptor that were
\* both removed while it was in flight, and the call issued next has run neither
C23_Witness ==
    \E c, d \in CallIds :
        /\ c < d
        /\ calls[c].pc = "settled"
        /\ calls[d].pc = "settled"
        /\ Len(calls[c].seen["request"]) = 1
        /\ Len(calls[c].seen["response"]) = 1
        /\ calls[c].log = <<calls[c].seen["request"][1].fulfilled, DispatchFn,
                            calls[c].seen["response"][1].fulfilled>>
        /\ calls[d].seen = [r \in Regs |-> << >>]
        /\ calls[d].log = <<DispatchFn>>
\* C24: when no interceptor function and no dispatch fails, what a call does is the
\* same in both strategies, a function of the registered interceptors and of the call
\* alone: it runs the onFulfilled of the request interceptors it does not skip, last
\* registered first, hands the config they produced to the transport, runs the
\* onFulfilled of the response interceptors, first registered first, and is fulfilled
\* with the response they produced.
C24_StrategiesEquivalent ==
    \A c \in CallIds :
        LET call == calls[c]
            req == Reverse(FulfilledFns(Running(call.seen["request"], call.config)))
            res == FulfilledFns(call.seen["response"])
        IN  call.pc = "settled"
                => /\ call.log = req \o <<DispatchFn>> \o res
                   /\ call.sent = req
                   /\ call.promise = Fulfilled(req \o <<DispatchFn>> \o res)
====
